---- MODULE Spec2Model ----
(***************************************************************************)
(* Model of multipass' AliasDict: the alias registry (contexts, active     *)
(* context, modified flag), its JSON codec (to_json / load_dict) and the   *)
(* save protocol of save_dict (temp file, backup rotation, rename), for    *)
(* one process and for two processes working on the same files.           *)
(***************************************************************************)
EXTENDS Integers, Sequences, FiniteSets, TLC

VARIABLES
    active_context, \* AliasDict::active_context
    aliases,        \* AliasDict::aliases : context name -> (alias name -> definition)
    modified,       \* AliasDict::modified
    disk,           \* the files at aliases_file and aliases_file + ".bak"
    temps,          \* the temporary files of the directory, by the number in their names
    dict_json,      \* save_dict's local dict_json
    pc,             \* where the process is: "start", "live", a step of save_dict, "dead", "failed"
    last,           \* the last registry operation: its name, arguments, results and the state before it
    saved,          \* the last run of save_dict: its outcome and the state when it was called
    calls,          \* number of calls so far: constructions and registry operations
    temp_file,      \* save_dict's local temp_file: the number of its file, 0 before it is created
    peer            \* the other process working on the same files, while this one runs

vars == <<active_context, aliases, modified, disk, temps, dict_json, pc, last, saved, calls,
          temp_file, peer>>

-----------------------------------------------------------------------------
(* Bounds of the model *)

\* Calls of the constructor and of the registry operations after the initial state.
MaxCalls == 4

-----------------------------------------------------------------------------
(* The values the operations are called with *)

CtxNames == {"default", "work"}

AliasNames == {"ll", "x"}

Instances == {"vm1", "vm2"}

AliasDefinition(i, c, w) == [instance |-> i, command |-> c, working_directory |-> w]

Definitions ==
    { AliasDefinition("vm1", "ls", "default"),
      AliasDefinition("vm2", "ls -la", "map"),
      AliasDefinition("vm1", "pwd", "bogus") }

\* Stands for "no definition" where a record is needed.
NoDef == AliasDefinition("", "", "")

\* An AliasContext without aliases.
EmptyContext == [a \in {} |-> NoDef]

\* A DictType without contexts.
EmptyDict == [c \in {} |-> EmptyContext]

\* Keys in the order QJsonObject enumerates them (sorted).
KeyOrder == <<"", "a", "default", "ll", "work", "x">>

-----------------------------------------------------------------------------
(* JSON values and file contents *)

\* t: "null" (undefined), "str", "obj", "num" (any value that is neither a
\* string nor an object); file contents add "absent", "garbage", "partial".
JV(t, s, m) == [t |-> t, s |-> s, m |-> m]

NoMembers == [k \in {} |-> 0]

JNull == JV("null", "", NoMembers)

JNum == JV("num", "", NoMembers)

JStr(s) == JV("str", s, NoMembers)

JObj(m) == JV("obj", "", m)

\* No file at the path.
Absent == JV("absent", "", NoMembers)

\* A file whose bytes are empty or are not JSON.
Garbage == JV("garbage", "", NoMembers)

\* A file into which a document was written only in part.
Partial == JV("partial", "", NoMembers)

\* QJsonObject::operator[] const / value(): undefined when the key is missing.
Member(obj, k) == IF k \in DOMAIN obj THEN obj[k] ELSE JNull

\* QJsonValue::toObject(): the empty object for anything that is no object.
toObject(v) == IF v.t = "obj" THEN v.m ELSE NoMembers

\* QJsonValue::toString(): the empty string for anything that is no string.
toString(v) == IF v.t = "str" THEN v.s ELSE ""

isEmpty(obj) == DOMAIN obj = {}

\* The keys of an object in enumeration order.
SortedKeys(obj) == SelectSeq(KeyOrder, LAMBDA k : k \in DOMAIN obj)

-----------------------------------------------------------------------------
(* Registry helpers *)

\* Faulty variant of check_working_directory_string: nothing is refused.
check_working_directory_string_lenient(dir) == TRUE

\* check_working_directory_string: TRUE when it does not throw.
check_working_directory_string(dir) == ~(dir # "map" /\ dir # "default")

\* std::unordered_map::operator[] on aliases: inserts an empty context when absent.
Subscript(dict, c) == IF c \in DOMAIN dict THEN dict ELSE dict @@ (c :> EmptyContext)

\* std::unordered_map::erase(key).
Erase(map, k) == [x \in DOMAIN map \ {k} |-> map[x]]

\* The registry as one value.
Registry == [active |-> active_context, aliases |-> aliases, modified |-> modified]

\* The sequences that enumerate the set S once each (an unordered_map's iteration order).
Orderings(S) == { s \in [1..Cardinality(S) -> S] : \A i, j \in 1..Cardinality(S) : s[i] = s[j] => i = j }

\* removed_active: holds the name of the active context when remove_context has
\* removed it and set_active_context has not been called since.
\* file: what load_dict found at the path (ret: it opened the file).
\* quiet: the object has only been asked to set the active context and to look up.
NoOp == [op |-> "none", name |-> "", def |-> NoDef, ret |-> FALSE, names |-> << >>,
         found |-> {}, pre |-> [active |-> "", aliases |-> EmptyDict, modified |-> FALSE],
         removed_active |-> {}, file |-> Absent, quiet |-> TRUE]

Called(op, name, def, ret, names, found) ==
    [op |-> op, name |-> name, def |-> def, ret |-> ret, names |-> names,
     found |-> found, pre |-> Registry,
     removed_active |-> CASE op = "set_active_context" -> {}
                          [] op = "remove_context" /\ ret /\ name = active_context -> {name}
                          [] OTHER -> last.removed_active,
     file |-> Absent,
     quiet |-> last.quiet /\ op \in {"set_active_context", "exists_alias", "get_alias"}]

\* What every registry operation leaves alone, and the call counter.
Call == /\ pc = "live"
        /\ calls < MaxCalls
        /\ calls' = calls + 1
        /\ UNCHANGED <<disk, temps, dict_json, pc, saved, temp_file, peer>>

-----------------------------------------------------------------------------
(* Registry operations *)

\* Faulty variant of set_active_context: the context is assigned, not try_emplaced.
set_active_context_assigns(new_active_context) ==
    /\ Call
    /\ active_context' = new_active_context
    /\ aliases' = [c \in DOMAIN aliases \cup {new_active_context} |->
                     IF c = new_active_context THEN EmptyContext ELSE aliases[c]]
    /\ UNCHANGED modified
    /\ last' = Called("set_active_context", new_active_context, NoDef, TRUE, << >>, {})

\* Faulty variant of set_active_context: creating a context marks the object modified.
set_active_context_marks(new_active_context) ==
    /\ Call
    /\ active_context' = new_active_context
    /\ aliases' = Subscript(aliases, new_active_context)
    /\ modified' = IF new_active_context \in DOMAIN aliases THEN modified ELSE TRUE
    /\ last' = Called("set_active_context", new_active_context, NoDef, TRUE, << >>, {})

set_active_context(new_active_context) ==
    /\ Call
    /\ active_context' = new_active_context
    /\ aliases' = Subscript(aliases, new_active_context)      \* try_emplace
    /\ UNCHANGED modified
    /\ last' = Called("set_active_context", new_active_context, NoDef, TRUE, << >>, {})

get_active_context == active_context

\* Faulty variant of add_alias: insert_or_assign in place of try_emplace.
add_alias_overwrites(alias, command) ==
    LET dict == Subscript(aliases, active_context)
        inserted == alias \notin DOMAIN dict[active_context]
    IN  /\ Call
        /\ aliases' = [dict EXCEPT ![active_context] =
                         [a \in DOMAIN @ \cup {alias} |-> IF a = alias THEN command ELSE @[a]]]
        /\ modified' = IF inserted THEN TRUE ELSE modified
        /\ UNCHANGED active_context
        /\ last' = Called("add_alias", alias, command, inserted, << >>, {})

add_alias(alias, command) ==
    LET dict == Subscript(aliases, active_context)
        inserted == alias \notin DOMAIN dict[active_context]   \* try_emplace(...).second
    IN  /\ Call
        /\ aliases' = IF inserted
                        THEN [dict EXCEPT ![active_context] = @ @@ (alias :> command)]
                        ELSE dict
        /\ modified' = IF inserted THEN TRUE ELSE modified
        /\ UNCHANGED active_context
        /\ last' = Called("add_alias", alias, command, inserted, << >>, {})

\* std::unordered_map::count(key).
Count(map, k) == IF k \in DOMAIN map THEN 1 ELSE 0

\* std::unordered_map::at(key): the set holding the mapped value, empty when
\* at throws std::out_of_range.
At(map, k) == { map[x] : x \in DOMAIN map \cap {k} }

\* The value exists_alias returns.
exists_alias_value(alias) ==
    Count(aliases, active_context) # 0 /\ Count(aliases[active_context], alias) # 0

\* Faulty variant of get_alias_value: every context is searched.
get_alias_value_any_context(alias) ==
    UNION { At(aliases[c], alias) : c \in DOMAIN aliases }

\* The value get_alias returns: the set holding the definition, empty for nullopt
\* (std::out_of_range caught).
get_alias_value(alias) ==
    UNION { At(context, alias) : context \in At(aliases, active_context) }

exists_alias(alias) ==
    /\ Call
    /\ UNCHANGED <<active_context, aliases, modified>>
    /\ last' = Called("exists_alias", alias, NoDef, exists_alias_value(alias), << >>,
                      get_alias_value(alias))

get_alias(alias) ==
    /\ Call
    /\ UNCHANGED <<active_context, aliases, modified>>
    /\ last' = Called("get_alias", alias, NoDef, exists_alias_value(alias), << >>,
                      get_alias_value(alias))

remove_alias(alias) ==
    LET dict == Subscript(aliases, active_context)
        erased == alias \in DOMAIN dict[active_context]        \* erase(alias) > 0
    IN  /\ Call
        /\ aliases' = [dict EXCEPT ![active_context] = Erase(@, alias)]
        /\ modified' = IF erased THEN TRUE ELSE modified
        /\ UNCHANGED active_context
        /\ last' = Called("remove_alias", alias, NoDef, erased, << >>, {})

remove_context(context) ==
    LET erased == context \in DOMAIN aliases                   \* erase(context) > 0
    IN  /\ Call
        /\ aliases' = Erase(aliases, context)
        /\ modified' = IF erased THEN TRUE ELSE modified
        /\ UNCHANGED active_context
        /\ last' = Called("remove_context", context, NoDef, erased, << >>, {})

\* Faulty variant of remove_aliases_for_instance: every context is scanned.
remove_aliases_for_instance_everywhere(instance) ==
    LET dict == Subscript(aliases, active_context)
        removed == { a \in DOMAIN dict[active_context] : dict[active_context][a].instance = instance }
    IN  /\ Call
        /\ aliases' = [c \in DOMAIN dict |->
                         [a \in { x \in DOMAIN dict[c] : dict[c][x].instance # instance } |-> dict[c][a]]]
        /\ modified' = IF removed # {} THEN TRUE ELSE modified
        /\ UNCHANGED active_context
        /\ \E removed_aliases \in Orderings(removed) :
             last' = Called("remove_aliases_for_instance", instance, NoDef, removed # {},
                            removed_aliases, {})

remove_aliases_for_instance(instance) ==
    LET dict == Subscript(aliases, active_context)
        context == dict[active_context]
        removed == { a \in DOMAIN context : context[a].instance = instance }
    IN  /\ Call
        /\ aliases' = [dict EXCEPT ![active_context] = [a \in DOMAIN context \ removed |-> context[a]]]
        /\ modified' = IF removed # {} THEN TRUE ELSE modified
        /\ UNCHANGED active_context
        /\ \E removed_aliases \in Orderings(removed) :
             last' = Called("remove_aliases_for_instance", instance, NoDef, removed # {},
                            removed_aliases, {})

clear ==
    /\ Call
    /\ aliases' = EmptyDict
    /\ modified' = IF aliases # EmptyDict THEN TRUE ELSE modified
    /\ UNCHANGED active_context
    /\ last' = Called("clear", "", NoDef, aliases # EmptyDict, << >>, {})

-----------------------------------------------------------------------------
(* Codec *)

\* Faulty variant of alias_to_json: the "working-directory" member is left out.
alias_to_json_without_working_directory(alias) ==
    JObj([k \in {"instance", "command"} |->
            IF k = "instance" THEN JStr(alias.instance) ELSE JStr(alias.command)])

\* The lambda alias_to_json of to_json, past its check.
alias_to_json(alias) ==
    JObj([k \in {"instance", "command", "working-directory"} |->
            CASE k = "instance" -> JStr(alias.instance)
              [] k = "command" -> JStr(alias.command)
              [] OTHER -> JStr(alias.working_directory)])

\* to_json throws: some alias fails check_working_directory_string.
to_json_throws(dict) ==
    \E c \in DOMAIN dict : \E a \in DOMAIN dict[c] :
        ~check_working_directory_string(dict[c][a].working_directory)

\* The document to_json returns for a registry.
to_json(active, dict) ==
    JObj([k \in {"active-context", "contexts"} |->
            IF k = "active-context"
              THEN JStr(active)
              ELSE JObj([c \in DOMAIN dict |->
                           JObj([a \in DOMAIN dict[c] |-> alias_to_json(dict[c][a])])])])

\* The lambda records_to_context of load_dict, over the keys still to visit:
\* ok is FALSE when check_working_directory_string throws.
RECURSIVE records_to_context_from(_, _, _)
records_to_context_from(records, keys, context) ==
    IF keys = << >>
      THEN [ok |-> TRUE, context |-> context]
      ELSE LET alias == Head(keys)
               record == toObject(records[alias])
               instance == toString(Member(record, "instance"))
               command == toString(Member(record, "command"))
               read_working_directory == Member(record, "working-directory")
               working_directory ==
                   IF read_working_directory.t = "str" /\ toString(read_working_directory) # ""
                     THEN toString(read_working_directory)
                     ELSE "default"
           IN  IF isEmpty(record)
                 THEN [ok |-> TRUE, context |-> context]                     \* break
                 ELSE IF ~check_working_directory_string(working_directory)
                   THEN [ok |-> FALSE, context |-> context]
                   ELSE records_to_context_from(
                            records, Tail(keys),
                            IF alias \in DOMAIN context
                              THEN context
                              ELSE context @@ (alias :> AliasDefinition(instance, command, working_directory)))

records_to_context(records) ==
    records_to_context_from(records, SortedKeys(records), EmptyContext)

\* load_dict on a file that opens, for an object whose active_context is `active`:
\* ok is FALSE when it throws.
load_dict(file, active) ==
    LET records == toObject(file)
        empty == [ok |-> TRUE, active |-> active, aliases |-> EmptyDict]
    IN  IF file.t = "absent" THEN empty                        \* no file
        ELSE IF file.t \in {"garbage", "partial"} THEN empty   \* doc.isNull()
        ELSE IF isEmpty(records) THEN empty
        ELSE IF "active-context" \in DOMAIN records
          THEN LET context_array == toObject(Member(records, "contexts"))
               IN  [ok |-> \A c \in DOMAIN context_array :
                              records_to_context(toObject(context_array[c])).ok,
                    active |-> toString(records["active-context"]),
                    aliases |-> [c \in DOMAIN context_array |->
                                   records_to_context(toObject(context_array[c])).context]]
          ELSE LET default_context == records_to_context(records)
               IN  [ok |-> default_context.ok,
                    active |-> "default",
                    aliases |-> ("default" :> default_context.context)]

\* sanitize_contexts: the contexts it erases.
empty_contexts(active, dict) ==
    { c \in DOMAIN dict : c # active /\ dict[c] = EmptyContext }

\* Faulty variant of sanitize_contexts: the active context is erased too when empty.
sanitize_contexts_active_too(active, dict) ==
    [c \in { x \in DOMAIN dict : dict[x] # EmptyContext } |-> dict[c]]

sanitize_contexts(active, dict) ==
    [c \in DOMAIN dict \ empty_contexts(active, dict) |-> dict[c]]

-----------------------------------------------------------------------------
(* Construction and destruction *)

\* runs: the outcome of every run of save_dict so far and the document it put
\* in place, oldest first. prior: the number of runs when the destructor began.
\* cerr: the lines the destructor has written to cerr. quiet: last.quiet of
\* the object destroyed. index: the place of this run in runs. io: the run
\* ended because a file operation failed that the state of the files allowed.
NoSave == [result |-> "none", step |-> "", disk |-> [primary |-> Absent, bak |-> Absent],
           temps |-> << >>,
           reg |-> [active |-> "", aliases |-> EmptyDict, modified |-> FALSE],
           runs |-> << >>, prior |-> 0, cerr |-> 0, quiet |-> FALSE,
           index |-> 0, io |-> FALSE]

\* No other process.
NoPeer == [pc |-> "none"]

\* AliasDict::AliasDict: a fresh object (active_context empty, modified false)
\* that runs load_dict on the file at aliases_file.
AliasDict ==
    /\ pc \in {"start", "dead"}
    /\ calls < MaxCalls
    /\ calls' = calls + 1
    /\ \E open \in BOOLEAN :                                   \* MP_FILEOPS.open
         LET loaded == load_dict(disk.primary, "")
         IN  /\ IF disk.primary.t # "absent" /\ ~open
                  THEN /\ pc' = "failed"                       \* "Error opening file"
                       /\ active_context' = ""
                       /\ aliases' = EmptyDict
                  ELSE /\ pc' = IF loaded.ok THEN "live" ELSE "failed"
                       /\ active_context' = IF loaded.ok THEN loaded.active ELSE ""
                       /\ aliases' = IF loaded.ok THEN loaded.aliases ELSE EmptyDict
             /\ last' = [NoOp EXCEPT !.op = "load_dict", !.file = disk.primary,
                                     !.ret = disk.primary.t # "absent" /\ open]
    /\ modified' = FALSE
    /\ UNCHANGED <<disk, temps, dict_json, saved, temp_file, peer>>

\* Faulty variant of Destroy: save_dict is called whether modified or not.
Destroy_always ==
    /\ pc = "live"
    /\ pc' = "save_dict"
    /\ saved' = [result |-> "running", step |-> "",
                 disk |-> disk, temps |-> temps, reg |-> Registry, runs |-> saved.runs,
                 prior |-> Len(saved.runs), cerr |-> 0, quiet |-> last.quiet,
                 index |-> 0, io |-> FALSE]
    /\ last' = NoOp
    /\ temp_file' = 0
    /\ UNCHANGED <<active_context, aliases, modified, disk, temps, dict_json, calls, peer>>

\* AliasDict::~AliasDict: calls save_dict when modified.
Destroy ==
    /\ pc = "live"
    /\ pc' = IF modified THEN "save_dict" ELSE "dead"
    /\ saved' = [result |-> IF modified THEN "running" ELSE "none", step |-> "",
                 disk |-> disk, temps |-> temps, reg |-> Registry, runs |-> saved.runs,
                 prior |-> Len(saved.runs), cerr |-> 0, quiet |-> last.quiet,
                 index |-> 0, io |-> FALSE]
    /\ last' = NoOp                                            \* no operation follows
    /\ temp_file' = 0                                          \* save_dict has no temp_file yet
    /\ UNCHANGED <<active_context, aliases, modified, disk, temps, dict_json, calls, peer>>

-----------------------------------------------------------------------------
(* save_dict, one action per step *)

\* save_dict ends at this step: by an exception ("raised"), which the
\* destructor catches and reports on cerr, or by returning ("done", "skipped").
Ends(result, io) ==
    /\ pc' = "dead"
    /\ saved' = [saved EXCEPT !.result = result, !.step = pc,
                              !.cerr = IF result = "raised" THEN @ + 1 ELSE @,
                              !.index = Len(saved.runs) + 1, !.io = io,
                              !.runs = Append(@, [result |-> result,
                                                  doc |-> IF result = "done" THEN dict_json ELSE JNull])]

\* QFile::rename: fails when the source is missing or the target exists.
CanRename(from, to) == from.t # "absent" /\ to.t = "absent"

\* sanitize_contexts() and to_json().
Serialize ==
    LET dict == sanitize_contexts(active_context, aliases)
    IN  /\ pc = "save_dict"
        /\ aliases' = dict
        /\ modified' = IF empty_contexts(active_context, aliases) # {} THEN TRUE ELSE modified
        /\ IF to_json_throws(dict)
             THEN Ends("raised", FALSE) /\ UNCHANGED dict_json
             ELSE /\ dict_json' = to_json(active_context, dict)
                  /\ pc' = "open_temp"
                  /\ UNCHANGED saved
        /\ UNCHANGED <<active_context, disk, temps, last, calls, temp_file, peer>>

\* mpu::create_temp_file_with_path: it returns the name template of the
\* temporary file, or raises when the directory cannot be made.
create_temp_file_with_path == {"returned", "raised"}

\* QTemporaryFile: the file it creates has a name no file of the directory has.
UnusedName == CHOOSE n \in 1..(Cardinality(DOMAIN temps) + 1) : n \notin DOMAIN temps

\* QTemporaryFile temp_file{create_temp_file_with_path(...)} + MP_FILEOPS.open:
\* nothing else happens when open fails.
OpenTemp ==
    /\ pc = "open_temp"
    /\ \E path \in create_temp_file_with_path, open \in BOOLEAN :
         IF path = "raised"
           THEN Ends("raised", TRUE) /\ UNCHANGED <<temps, temp_file>>
           ELSE IF open
             THEN /\ temps' = temps @@ (UnusedName :> Garbage)   \* created, still empty
                  /\ temp_file' = UnusedName
                  /\ pc' = "write_json"
                  /\ UNCHANGED saved
             ELSE Ends("skipped", TRUE) /\ UNCHANGED <<temps, temp_file>>
    /\ UNCHANGED <<active_context, aliases, modified, disk, dict_json, last, calls, peer>>

\* mp::write_json: what it can do to the file it writes. It writes the whole
\* document, or raises with the file written in part.
write_json(json) ==
    { [raised |-> FALSE, content |-> json], [raised |-> TRUE, content |-> Partial] }

\* Faulty variant of WriteJson: the document is written into the config file itself.
WriteJson_in_place ==
    /\ pc = "write_json"
    /\ \E written \in write_json(dict_json) :
         /\ disk' = [disk EXCEPT !.primary = written.content]
         /\ Ends(IF written.raised THEN "raised" ELSE "done", written.raised)
    /\ UNCHANGED <<active_context, aliases, modified, temps, dict_json, last, calls, temp_file, peer>>

\* mp::write_json(dict_json, temp_file.fileName()); temp_file.close().
WriteJson ==
    /\ pc = "write_json"
    /\ \E written \in write_json(dict_json) :
         /\ temps' = [temps EXCEPT ![temp_file] = written.content]
         /\ IF written.raised
              THEN Ends("raised", TRUE)
              ELSE pc' = "exists" /\ UNCHANGED saved
    /\ UNCHANGED <<active_context, aliases, modified, disk, dict_json, last, calls, temp_file, peer>>

\* Faulty variant of ConfigExists: the config file is taken to exist.
ConfigExists_always ==
    /\ pc = "exists"
    /\ pc' = "exists_backup"
    /\ UNCHANGED <<active_context, aliases, modified, disk, temps, dict_json, last, saved, calls, temp_file, peer>>

\* MP_FILEOPS.exists(QFile{config_file_name}).
ConfigExists ==
    /\ pc = "exists"
    /\ pc' = IF disk.primary.t # "absent" THEN "exists_backup" ELSE "rename_temp"
    /\ UNCHANGED <<active_context, aliases, modified, disk, temps, dict_json, last, saved, calls, temp_file, peer>>

\* Faulty variant of BackupExists: the old backup is left where it is.
BackupExists_skips ==
    /\ pc = "exists_backup"
    /\ pc' = "rename_config"
    /\ UNCHANGED <<active_context, aliases, modified, disk, temps, dict_json, last, saved, calls, temp_file, peer>>

\* MP_FILEOPS.exists(backup_file): the left operand of &&.
BackupExists ==
    /\ pc = "exists_backup"
    /\ pc' = IF disk.bak.t # "absent" THEN "remove_backup" ELSE "rename_config"
    /\ UNCHANGED <<active_context, aliases, modified, disk, temps, dict_json, last, saved, calls, temp_file, peer>>

\* !MP_FILEOPS.remove(backup_file): QFile::remove fails when the file is missing.
RemoveBackup ==
    /\ pc = "remove_backup"
    /\ \E removed \in BOOLEAN :
         IF removed /\ disk.bak.t # "absent"
           THEN /\ disk' = [disk EXCEPT !.bak = Absent]
                /\ pc' = "rename_config"
                /\ UNCHANGED saved
           ELSE Ends("raised", disk.bak.t # "absent") /\ UNCHANGED disk
    /\ UNCHANGED <<active_context, aliases, modified, temps, dict_json, last, calls, temp_file, peer>>

\* Faulty variant of RenameConfig: the config file is removed, not renamed.
RenameConfig_removes ==
    /\ pc = "rename_config"
    /\ disk' = [disk EXCEPT !.primary = Absent]
    /\ pc' = "rename_temp"
    /\ UNCHANGED <<active_context, aliases, modified, temps, dict_json, last, saved, calls, temp_file, peer>>

\* MP_FILEOPS.rename(config_file, backup_file_name).
RenameConfig ==
    /\ pc = "rename_config"
    /\ \E renamed \in BOOLEAN :
         IF renamed /\ CanRename(disk.primary, disk.bak)
           THEN /\ disk' = [primary |-> Absent, bak |-> disk.primary]
                /\ pc' = "rename_temp"
                /\ UNCHANGED saved
           ELSE Ends("raised", CanRename(disk.primary, disk.bak)) /\ UNCHANGED disk
    /\ UNCHANGED <<active_context, aliases, modified, temps, dict_json, last, calls, temp_file, peer>>

\* MP_FILEOPS.rename(temp_file, config_file_name).
RenameTemp ==
    /\ pc = "rename_temp"
    /\ \E renamed \in BOOLEAN :
         IF renamed /\ CanRename(temps[temp_file], disk.primary)
           THEN /\ disk' = [disk EXCEPT !.primary = temps[temp_file]]
                /\ temps' = [n \in DOMAIN temps \ {temp_file} |-> temps[n]]
                /\ Ends("done", FALSE)
           ELSE Ends("raised", CanRename(temps[temp_file], disk.primary)) /\ UNCHANGED <<disk, temps>>
    /\ UNCHANGED <<active_context, aliases, modified, dict_json, last, calls, temp_file, peer>>

SaveSteps == {"save_dict", "open_temp", "write_json", "exists", "exists_backup", "remove_backup",
              "rename_config", "rename_temp"}

-----------------------------------------------------------------------------
(* Specification: sessions of registry operations, each ended by the destructor *)

\* A file this program writes: context "default" with one alias.
WrittenFile ==
    to_json("default", "default" :> ("ll" :> AliasDefinition("vm1", "ls", "default")))

InitFiles == {Absent, WrittenFile}

\* The state after the first construction.
Init ==
    /\ \E file \in InitFiles :
         /\ disk = [primary |-> file, bak |-> Absent]
         /\ active_context = load_dict(file, "").active
         /\ aliases = load_dict(file, "").aliases
         /\ last = [NoOp EXCEPT !.op = "load_dict", !.file = file, !.ret = file.t # "absent"]
    /\ modified = FALSE
    /\ temps = << >>
    /\ dict_json = JNull
    /\ pc = "live"
    /\ saved = NoSave
    /\ calls = 0
    /\ temp_file = 0
    /\ peer = NoPeer

Operation ==
    \/ \E c \in CtxNames : set_active_context(c)
    \/ \E a \in AliasNames, d \in Definitions : add_alias(a, d)
    \/ \E a \in AliasNames : exists_alias(a)
    \/ \E a \in AliasNames : get_alias(a)
    \/ \E a \in AliasNames : remove_alias(a)
    \/ \E c \in CtxNames : remove_context(c)
    \/ \E i \in Instances : remove_aliases_for_instance(i)
    \/ clear

Save ==
    \/ Serialize \/ OpenTemp \/ WriteJson \/ ConfigExists \/ BackupExists \/ RemoveBackup
    \/ RenameConfig \/ RenameTemp

Next == Operation \/ Destroy \/ Save \/ AliasDict

Spec == Init /\ [][Next]_vars

-----------------------------------------------------------------------------
(* Specification of loading: one construction over a file of any shape *)

LegacyKeys == {"a", "ll", "x"}

\* An alias entry with the given "working-directory" member (JNull: no member).
Entry(wd) ==
    JObj([k \in {"instance", "command"} \cup (IF wd.t = "null" THEN {} ELSE {"working-directory"}) |->
            CASE k = "instance" -> JStr("vm1")
              [] k = "command" -> JStr("ls")
              [] OTHER -> wd])

\* The values a member of a document's top level (or of a context) may have:
\* not an object, the empty object, and alias entries.
Entries ==
    { JNum, JObj(NoMembers),
      Entry(JNull), Entry(JStr("")), Entry(JNum), Entry(JStr("default")),
      Entry(JStr("map")), Entry(JStr("bogus")) }

\* Documents of the format without contexts.
LegacyFiles == { JObj(m) : m \in UNION { [K -> Entries] : K \in SUBSET LegacyKeys \ {{}} } }

\* Documents of the format with contexts, holding one context.
ContextFiles ==
    { JObj([k \in {"active-context", "contexts"} |->
              IF k = "active-context" THEN JStr("work") ELSE JObj("work" :> JObj(m))]) :
        m \in UNION { [K -> Entries] : K \in SUBSET {"ll", "x"} } }

LoadFiles == {Absent, Garbage, JObj(NoMembers), JNum} \cup LegacyFiles \cup ContextFiles

InitLoad ==
    /\ \E file \in LoadFiles : disk = [primary |-> file, bak |-> Absent]
    /\ active_context = ""
    /\ aliases = EmptyDict
    /\ modified = FALSE
    /\ temps = << >>
    /\ dict_json = JNull
    /\ pc = "start"
    /\ last = NoOp
    /\ saved = NoSave
    /\ calls = 0
    /\ temp_file = 0
    /\ peer = NoPeer

Lookup ==
    \/ \E a \in LegacyKeys : exists_alias(a)
    \/ \E a \in LegacyKeys : get_alias(a)

NextLoad == AliasDict \/ Lookup \/ Destroy

SpecLoad == InitLoad /\ [][NextLoad]_vars

-----------------------------------------------------------------------------
(* Specification of two processes: each has loaded the same config file, *)
(* changes its own registry and is destroyed; their steps interleave     *)

\* The process that runs, as the record kept of it while the other runs
\* (saved.runs is common to both and stays with the running one).
Running ==
    [active_context |-> active_context, aliases |-> aliases, modified |-> modified,
     dict_json |-> dict_json, pc |-> pc, last |-> last,
     saved |-> [saved EXCEPT !.runs = << >>], temp_file |-> temp_file]

\* The scheduler lets the other process run.
Yield ==
    /\ peer # NoPeer
    /\ peer' = Running
    /\ active_context' = peer.active_context
    /\ aliases' = peer.aliases
    /\ modified' = peer.modified
    /\ dict_json' = peer.dict_json
    /\ pc' = peer.pc
    /\ last' = peer.last
    /\ saved' = [peer.saved EXCEPT !.runs = saved.runs]
    /\ temp_file' = peer.temp_file
    /\ UNCHANGED <<disk, temps, calls>>

\* The state after both processes have constructed their AliasDict.
InitTwo ==
    /\ \E file \in InitFiles :
         /\ disk = [primary |-> file, bak |-> Absent]
         /\ active_context = load_dict(file, "").active
         /\ aliases = load_dict(file, "").aliases
         /\ last = [NoOp EXCEPT !.op = "load_dict", !.file = file, !.ret = file.t # "absent"]
    /\ modified = FALSE
    /\ temps = << >>
    /\ dict_json = JNull
    /\ pc = "live"
    /\ saved = NoSave
    /\ calls = 0
    /\ temp_file = 0
    /\ peer = Running

\* The changes a process makes to its registry.
Mutation ==
    \/ \E a \in AliasNames, d \in Definitions : add_alias(a, d)
    \/ \E a \in AliasNames : remove_alias(a)

NextTwo == Mutation \/ Destroy \/ Save \/ Yield

SpecTwo == InitTwo /\ [][NextTwo]_vars

-----------------------------------------------------------------------------
(* Properties *)

\* The (context name, alias name, definition) triples of a dictionary.
Triples(dict) ==
    UNION { { <<c, a, dict[c][a]>> : a \in DOMAIN dict[c] } : c \in DOMAIN dict }

AllWorkingDirectoriesValid ==
    \A c \in DOMAIN aliases : \A a \in DOMAIN aliases[c] :
        aliases[c][a].working_directory \in {"default", "map"}

\* C1: in every reachable registry state whose working_directory values are
\* all "default" or "map", load_dict of the document to_json returns does not
\* throw and yields the same active context and the same set of
\* (context, alias, definition) triples.
RoundTrip ==
    AllWorkingDirectoriesValid =>
        LET loaded == load_dict(to_json(active_context, aliases), "")
        IN  /\ ~to_json_throws(aliases)
            /\ loaded.ok
            /\ loaded.active = active_context
            /\ Triples(loaded.aliases) = Triples(aliases)

\* C1 witness: a registry with two contexts, the active one holding an alias
\* with working_directory "map", round-trips.
RoundTripWitness ==
    /\ pc = "live"
    /\ AllWorkingDirectoriesValid
    /\ DOMAIN aliases = {"default", "work"}
    /\ active_context = "work"
    /\ \E a \in DOMAIN aliases["work"] : aliases["work"][a].working_directory = "map"
    /\ aliases["default"] # EmptyContext
    /\ load_dict(to_json(active_context, aliases), "").aliases = aliases

\* The document save_dict serializes for the registry it was called on.
SerializedAtCall ==
    to_json(saved.reg.active, sanitize_contexts(saved.reg.active, saved.reg.aliases))

\* C2: when save_dict has run to its end, the config file holds the newly
\* serialized document and, if a config file existed before the call, the
\* .bak file holds exactly what the config file held before the call; when
\* the preceding run of save_dict ran to its end too, .bak holds the document
\* that run put in place; the staging file is gone (no other copy is kept).
BackupRotation ==
    saved.result = "done" =>
        LET n == Len(saved.runs)
        IN  /\ disk.primary = SerializedAtCall
            /\ saved.disk.primary.t # "absent" => disk.bak = saved.disk.primary
            /\ (n >= 2 /\ saved.runs[n - 1].result = "done") => disk.bak = saved.runs[n - 1].doc
            /\ temps = saved.temps

\* C2 witness: a second complete save has replaced an older backup by the
\* document of the first save.
BackupRotationWitness ==
    /\ saved.result = "done"
    /\ Len(saved.runs) = 2
    /\ saved.runs[1].result = "done"
    /\ saved.disk.bak.t # "absent"
    /\ saved.disk.bak # saved.runs[1].doc
    /\ disk.bak = saved.runs[1].doc
    /\ disk.primary # disk.bak

\* The step save_dict is at, or ended at.
SaveStep == IF saved.result = "running" THEN pc ELSE saved.step

\* C3: while save_dict runs (where it may be interrupted), and after it has
\* raised at any step,
\* the document the config file held before the call is still on disk as it
\* was: in the config file or, from the rename to .bak on (a failure of the
\* final rename), in the .bak file; the config file never holds a document
\* written in part.
SaveFailureKeepsFile ==
    /\ disk.primary.t # "partial"
    /\ (saved.result \in {"running", "raised"} /\ saved.disk.primary.t # "absent") =>
          IF SaveStep = "rename_temp"
            THEN disk.bak = saved.disk.primary
            ELSE disk.primary = saved.disk.primary

\* C3 witness: the final rename has failed; the previous document is in .bak.
SaveFailureWitness ==
    /\ saved.result = "raised"
    /\ saved.step = "rename_temp"
    /\ saved.disk.primary.t = "obj"
    /\ disk.primary.t = "absent"
    /\ disk.bak = saved.disk.primary

\* C4: when the registry is loaded after a save that ran to its end, and the
\* active context had an entry when save_dict was called: every context that
\* was empty and not active is absent, every context that had aliases is
\* present with them, and the active context is present, also when empty.
SanitizeBeforeSave ==
    (pc = "live" /\ last.op = "load_dict" /\ saved.result = "done"
       /\ saved.reg.active \in DOMAIN saved.reg.aliases) =>
        /\ active_context = saved.reg.active
        /\ active_context \in DOMAIN aliases
        /\ \A c \in DOMAIN saved.reg.aliases :
             /\ (c # saved.reg.active /\ saved.reg.aliases[c] = EmptyContext) => c \notin DOMAIN aliases
             /\ saved.reg.aliases[c] # EmptyContext =>
                  c \in DOMAIN aliases /\ aliases[c] = saved.reg.aliases[c]

\* C4 witness: an empty active context has survived save and load, an empty
\* context that was not active has not.
SanitizeWitness ==
    /\ pc = "live" /\ last.op = "load_dict" /\ saved.result = "done"
    /\ saved.reg.active \in DOMAIN saved.reg.aliases
    /\ saved.reg.aliases[saved.reg.active] = EmptyContext
    /\ \E c \in DOMAIN saved.reg.aliases \ {saved.reg.active} :
         saved.reg.aliases[c] = EmptyContext /\ c \notin DOMAIN aliases
    /\ aliases = (active_context :> EmptyContext)

\* The top-level members of a document that are non-empty objects.
AliasEntries(records) == { k \in DOMAIN records : ~isEmpty(toObject(records[k])) }

\* The working_directory an entry loads with.
LoadedWorkingDirectory(record) ==
    IF Member(record, "working-directory").t = "str" /\ Member(record, "working-directory").s # ""
      THEN Member(record, "working-directory").s
      ELSE "default"

\* C5: after loading a non-empty document without "active-context", the
\* active context is "default", "default" is the only context, and it holds
\* every top-level entry that is a non-empty object (and nothing else), with
\* working_directory "default" when the entry has no non-empty
\* "working-directory" string.
LegacyMigration ==
    LET records == toObject(disk.primary)
    IN  (pc = "live" /\ last.op = "load_dict" /\ ~isEmpty(records)
           /\ "active-context" \notin DOMAIN records) =>
            /\ active_context = "default"
            /\ DOMAIN aliases = {"default"}
            /\ DOMAIN aliases["default"] = AliasEntries(records)
            /\ \A k \in DOMAIN aliases["default"] :
                 aliases["default"][k] =
                     AliasDefinition(toString(Member(toObject(records[k]), "instance")),
                                     toString(Member(toObject(records[k]), "command")),
                                     LoadedWorkingDirectory(toObject(records[k])))

\* The active context before the last operation (empty when it had no entry).
ActiveContextBefore ==
    IF last.pre.active \in DOMAIN last.pre.aliases
      THEN last.pre.aliases[last.pre.active]
      ELSE EmptyContext

\* C6: add_alias(a, d) returns true exactly when the active context did not
\* contain a; then get_alias(a) is d and modified is true; otherwise the
\* stored definition, every context and modified are as before.
AddAliasInsertsWhenAbsent ==
    (pc = "live" /\ last.op = "add_alias") =>
        /\ last.ret <=> last.name \notin DOMAIN ActiveContextBefore
        /\ last.ret => get_alias_value(last.name) = {last.def} /\ modified
        /\ ~last.ret =>
             /\ get_alias_value(last.name) = {ActiveContextBefore[last.name]}
             /\ aliases = last.pre.aliases
             /\ modified = last.pre.modified

\* C6 witness: add_alias has returned false for a name bound to another
\* definition, in a registry not modified so far.
AddAliasWitness ==
    /\ pc = "live" /\ last.op = "add_alias"
    /\ ~last.ret
    /\ ActiveContextBefore[last.name] # last.def
    /\ ~modified

\* C7: remove_aliases_for_instance(i) removes from the active context exactly
\* the aliases whose instance is i and returns exactly their names, once
\* each; the other aliases of the active context and every other context are
\* as before; modified becomes true if and only if an alias was removed.
RemoveAliasesForInstance ==
    (pc = "live" /\ last.op = "remove_aliases_for_instance") =>
        LET removed == { a \in DOMAIN ActiveContextBefore :
                           ActiveContextBefore[a].instance = last.name }
        IN  /\ { last.names[i] : i \in 1..Len(last.names) } = removed
            /\ Len(last.names) = Cardinality(removed)
            /\ active_context = last.pre.active
            /\ active_context \in DOMAIN aliases
            /\ DOMAIN aliases[active_context] = DOMAIN ActiveContextBefore \ removed
            /\ \A a \in DOMAIN aliases[active_context] :
                 aliases[active_context][a] = ActiveContextBefore[a]
            /\ \A c \in DOMAIN last.pre.aliases \ {active_context} :
                 c \in DOMAIN aliases /\ aliases[c] = last.pre.aliases[c]
            /\ modified = (last.pre.modified \/ removed # {})

\* C7 witness: an alias of the active context was removed while the active
\* context keeps an alias of another instance and another context keeps an
\* alias of the same instance.
RemoveAliasesWitness ==
    /\ pc = "live" /\ last.op = "remove_aliases_for_instance"
    /\ Len(last.names) > 0
    /\ \E a \in DOMAIN aliases[active_context] : aliases[active_context][a].instance # last.name
    /\ \E c \in DOMAIN aliases \ {active_context} : \E a \in DOMAIN aliases[c] :
         aliases[c][a].instance = last.name

\* C8: after set_active_context(x) the active context is x and x has an
\* entry: empty when x was unseen, its aliases when x existed; no other
\* context is added, removed or modified.
SetActiveContext ==
    (pc = "live" /\ last.op = "set_active_context") =>
        /\ get_active_context = last.name
        /\ last.name \in DOMAIN aliases
        /\ last.name \notin DOMAIN last.pre.aliases => aliases[last.name] = EmptyContext
        /\ DOMAIN aliases = DOMAIN last.pre.aliases \cup {last.name}
        /\ \A c \in DOMAIN last.pre.aliases : aliases[c] = last.pre.aliases[c]

\* C8 witness: set_active_context was called again with the active context,
\* which holds aliases.
SetActiveContextWitness ==
    /\ pc = "live" /\ last.op = "set_active_context"
    /\ last.pre.active = last.name
    /\ last.name \in DOMAIN last.pre.aliases
    /\ aliases[last.name] # EmptyContext

\* C9: exists_alias(a) is true iff get_alias(a) is present iff the active
\* context has an entry that contains a (get_alias then returns that
\* definition); the lookups return these values and leave contexts, active
\* context and modified as they were.
LookupsSeeActiveContextOnly ==
    /\ \A a \in AliasNames \cup LegacyKeys :
         LET present == active_context \in DOMAIN aliases /\ a \in DOMAIN aliases[active_context]
         IN  /\ exists_alias_value(a) <=> present
             /\ get_alias_value(a) # {} <=> present
             /\ present => get_alias_value(a) = {aliases[active_context][a]}
    /\ (pc = "live" /\ last.op \in {"exists_alias", "get_alias"}) =>
         /\ Registry = last.pre
         /\ last.ret = exists_alias_value(last.name)
         /\ last.found = get_alias_value(last.name)

\* C9 witness: get_alias found nothing although another context holds the
\* alias, the active context having no entry.
LookupsWitness ==
    /\ pc = "live" /\ last.op = "get_alias"
    /\ last.found = {}
    /\ active_context \notin DOMAIN aliases
    /\ \E c \in DOMAIN aliases : last.name \in DOMAIN aliases[c]

\* C10: once remove_context has removed the active context, and until
\* set_active_context is called, the active context keeps its name and has
\* no entry, whatever other operation is called.
ActiveContextStaysRemoved ==
    pc = "live" =>
        \A n \in last.removed_active : get_active_context = n /\ n \notin DOMAIN aliases


\* C11: when remove_alias or remove_context returns false, or
\* remove_aliases_for_instance returns an empty list, the contexts, the
\* active context and modified are exactly as before the call.
NoOpsLeaveRegistry ==
    (/\ pc = "live"
     /\ \/ last.op \in {"remove_alias", "remove_context"} /\ ~last.ret
        \/ last.op = "remove_aliases_for_instance" /\ last.names = << >>) =>
        Registry = last.pre

\* Some alias of some context of the registry save_dict was called on has a
\* working_directory other than "default" and "map".
InvalidAtCall ==
    \E c \in DOMAIN saved.reg.aliases : \E a \in DOMAIN saved.reg.aliases[c] :
        saved.reg.aliases[c][a].working_directory \notin {"default", "map"}

\* C12: when some alias of some context has a working_directory other than
\* "default" and "map", save_dict goes no further than to_json, ends by
\* raising there, and the config file, the .bak file and the temporary files
\* are as before the call.
InvalidSaveWritesNothing ==
    (saved.result # "none" /\ InvalidAtCall) =>
        /\ saved.result \in {"running", "raised"}
        /\ SaveStep = "save_dict"
        /\ disk = saved.disk
        /\ temps = saved.temps

\* C12 witness: save_dict has raised for an alias of a context that is not
\* the active one, a config file being on disk.
InvalidSaveWitness ==
    /\ saved.result = "raised"
    /\ saved.step = "save_dict"
    /\ disk.primary.t = "obj"
    /\ \E c \in DOMAIN saved.reg.aliases \ {saved.reg.active} : \E a \in DOMAIN saved.reg.aliases[c] :
         saved.reg.aliases[c][a].working_directory = "bogus"
    /\ \A a \in DOMAIN saved.reg.aliases[saved.reg.active] :
         saved.reg.aliases[saved.reg.active][a].working_directory \in {"default", "map"}

\* C13: a registry constructed when no file exists has no contexts, its
\* active context is "default" and modified is false.
StartsWithDefaultContext ==
    (pc = "live" /\ last.op = "load_dict" /\ disk.primary.t = "absent") =>
        /\ aliases = EmptyDict
        /\ get_active_context = "default"
        /\ ~modified


BogusEntry(entry) ==
    /\ entry.t = "obj"
    /\ Member(entry.m, "working-directory").t = "str"
    /\ Member(entry.m, "working-directory").s \notin {"", "default", "map"}

\* The alias entries of a document: the members of its contexts, or its own
\* members when it has no "active-context".
EntriesOf(file) ==
    LET records == toObject(file)
        context_array == toObject(Member(records, "contexts"))
    IN  IF "active-context" \in DOMAIN records
          THEN UNION { { toObject(context_array[c])[k] : k \in DOMAIN toObject(context_array[c]) } :
                         c \in DOMAIN context_array }
          ELSE { records[k] : k \in DOMAIN records }

\* C15: load_dict on a file that is absent, empty or not JSON returns with no
\* contexts and modified false; on a document in which some alias entry has a
\* non-empty "working-directory" string other than "default" and "map" it
\* throws, with and without "active-context"; the file is as it was.
LoadClassification ==
    (last.op = "load_dict" /\ pc \in {"live", "failed"}
       /\ (last.file.t = "absent" \/ last.ret)) =>
        /\ last.file.t \in {"absent", "garbage"} =>
             pc = "live" /\ aliases = EmptyDict /\ ~modified
        /\ (\E entry \in EntriesOf(last.file) : BogusEntry(entry)) => pc = "failed"
        /\ disk.primary = last.file

\* C16: when save_dict has run to its end, modified is false.
SaveClearsModified ==
    (pc = "dead" /\ saved.result = "done") => ~modified

\* C17: when save_dict returns, it has reached the final rename and the
\* config file holds the newly serialized document; when it ends at the
\* creation or the opening of the temporary file or at write_json, it has
\* raised and the config file and the .bak file are as before the call.
SaveRaisesOrReplaces ==
    pc = "dead" =>
        /\ saved.result \in {"done", "skipped"} =>
             saved.step = "rename_temp" /\ disk.primary = SerializedAtCall
        /\ (saved.result # "none" /\ saved.step \in {"open_temp", "write_json"}) =>
             saved.result = "raised" /\ disk = saved.disk

\* C20: set_active_context leaves modified as it was; the destructor of an
\* object that has only been asked to set the active context and to look up
\* does not call save_dict, and the files are as they were.
SetActiveContextKeepsModified ==
    /\ (pc = "live" /\ last.op = "set_active_context") => modified = last.pre.modified
    /\ (pc = "live" /\ last.quiet) => ~modified
    /\ saved.quiet => saved.result = "none"
    /\ (pc = "dead" /\ saved.quiet) => disk = saved.disk /\ temps = saved.temps

\* C20 witness: an object loaded from a config file has been destroyed after
\* set_active_context created a context and made it the active one; the
\* config file still names the active context it named.
SetActiveContextQuietWitness ==
    /\ pc = "dead"
    /\ saved.quiet
    /\ disk.primary.t = "obj"
    /\ saved.reg.active # toString(Member(toObject(disk.primary), "active-context"))
    /\ saved.reg.active \notin DOMAIN toObject(Member(toObject(disk.primary), "contexts"))
    /\ saved.reg.active \in DOMAIN saved.reg.aliases


\* The two processes, in both orders.
BothOrders == { <<Running, peer>>, <<peer, Running>> }

\* save_dict of process p has begun.
Began(p) == p.saved.result # "none" /\ p.pc # "live"

\* save_dict of process p had ended when that of process q began.
SavedBefore(p, q) ==
    /\ Began(p) /\ Began(q)
    /\ p.pc = "dead"
    /\ p.saved.index <= q.saved.prior

\* No step of save_dict of the other process has fallen between two steps
\* of save_dict of process q.
Apart(p, q) == ~Began(p) \/ SavedBefore(p, q) \/ SavedBefore(q, p)

\* C18: when two processes that loaded the same config file and changed
\* their registries run save_dict one after the other, neither run is
\* stopped by what the other did to the files (a run that raises after to_json
\* does so because a file operation failed that the files allowed); when
\* both run to their end, the config file holds the document of the registry
\* of the second process and the .bak file holds the document the first wrote.
LastWriterWins ==
    \A o \in BothOrders :
        LET p == o[1]
            q == o[2]
        IN  /\ (q.pc = "dead" /\ q.saved.result = "raised" /\ Apart(p, q)) =>
                 q.saved.io \/ q.saved.step = "save_dict"
            /\ (SavedBefore(p, q) /\ q.pc = "dead"
                  /\ p.saved.result = "done" /\ q.saved.result = "done") =>
                 /\ disk.primary = to_json(q.active_context, q.aliases)
                 /\ disk.bak = p.dict_json

\* C18 witness: the other process has saved, then this one; both ran to
\* their end with documents that differ from each other and from the file
\* they loaded, which the config file and the .bak file now hold.
LastWriterWinsWitness ==
    /\ peer # NoPeer
    /\ SavedBefore(peer, Running)
    /\ pc = "dead"
    /\ saved.result = "done" /\ peer.saved.result = "done"
    /\ dict_json # peer.dict_json
    /\ peer.saved.disk.primary \notin {Absent, dict_json, peer.dict_json}
    /\ disk = [primary |-> dict_json, bak |-> peer.dict_json]

\* save_dict of process p has returned or raised in its steps on the config
\* file and the .bak file (the removal of the backup, the two renames).
ReachedFiles(p) ==
    /\ p.pc = "dead"
    /\ p.saved.result \in {"done", "raised"}
    /\ p.saved.step \in {"remove_backup", "rename_config", "rename_temp"}

\* ReachedFiles, no file operation of p having failed that the files allowed.
EndedByFiles(p) == ReachedFiles(p) /\ ~p.saved.io

====
